---- MODULE Spec2Model ----
(***************************************************************************)
(* AAMVA record codec of pdf417_decoder.py: the field registries,          *)
(* parse_aamva, decode_barcode, generate_barcode and main; and the         *)
(* PDF417Encoder of ref/not-working/dev_v2.py.                             *)
(* Text is a sequence of one-character strings.                            *)
(***************************************************************************)
EXTENDS Integers, Sequences, FiniteSets, TLC

VARIABLES
    data,       \* the payload text: given to parse_aamva, or carried as the
                \* bytes of item "parsed" of the detector's first result
    parsed,     \* what the parse_aamva calls made so far returned, per registry
    dec,        \* the last call of decode_barcode and what it did
    json_file,  \* the JSON input file of generate_barcode
    gen,        \* the last call of generate_barcode and what it did
    reparsed,   \* parse_aamva of the payload generate_barcode built
    cli,        \* the last run of main
    heap,       \* the dict objects of the module: the two registries, the
                \* dict parse_aamva last built and the record last loaded
    calls,      \* the calls of parse_aamva and generate_barcode made one
                \* after another in one process, with what each returned
    enc         \* the last call of a method of PDF417Encoder (dev_v2.py)

vars == <<data, parsed, dec, json_file, gen, reparsed, cli, heap, calls, enc>>

---------------------------------------------------------------------------
(* Bounds of the model *)

\* The number of pieces (a tag code or a single character) a payload is built of.
MaxPieces == 4

\* The same for the payload the detector reads off an image.
MaxDecodePieces == 2

\* The number of items of the JSON object given to generate_barcode.
MaxKeys == 2

---------------------------------------------------------------------------
(* Characters *)

LF == "\n"
CR == "\r"
SP == " "
TAB == "\t"

\* What [^\n\r] excludes.
LineTerminators == {LF, CR}

\* The characters of the model's alphabet that str.strip() removes.
Whitespace == {SP, TAB, LF, CR}

---------------------------------------------------------------------------
(* The registries: dicts in insertion order, as sequences of items *)

Item(a, b, c, n) == [code |-> <<a, b, c>>, name |-> n]

SIMPLE_FIELDS ==
    << Item("D", "C", "S", "LastName"),
       Item("D", "A", "C", "FirstName"),
       Item("D", "A", "D", "MiddleName"),
       Item("D", "B", "B", "DOB"),
       Item("D", "B", "A", "ExpirationDate"),
       Item("D", "A", "Q", "LicenseNumber"),
       Item("D", "A", "G", "Address"),
       Item("D", "A", "I", "City"),
       Item("D", "A", "J", "State"),
       Item("D", "A", "K", "ZipCode") >>

\* The items FULL_FIELDS adds after the spread of SIMPLE_FIELDS.
ExtendedItems ==
    << Item("D", "A", "Y", "EyeColor"),
       Item("D", "A", "U", "Height"),
       Item("D", "B", "C", "Sex"),
       Item("D", "C", "G", "Country"),
       Item("D", "B", "D", "IssueDate"),
       Item("D", "C", "F", "DocumentDiscriminator"),
       Item("D", "C", "K", "InventoryControlNumber"),
       Item("D", "D", "E", "ComplianceType"),
       Item("D", "D", "F", "CardRevisionDate"),
       Item("D", "D", "G", "HazmatEndorsement"),
       Item("D", "D", "H", "LimitedTermIndicator"),
       Item("D", "C", "U", "NameSuffix"),
       Item("D", "D", "C", "MedicalIndicator"),
       Item("D", "D", "D", "NonResidentIndicator"),
       Item("D", "L", "D", "IDType"),
       Item("D", "C", "B", "RestrictionsCode"),
       Item("D", "C", "D", "ClassificationCode"),
       Item("D", "D", "B", "RecordCreationDate"),
       Item("D", "D", "A", "AuditInformation"),
       Item("D", "C", "A", "VehicleClass"),
       Item("Z", "V", "Z", "SecurityData") >>

\* A registry that leaves out the spread of SIMPLE_FIELDS.
FULL_FIELDS_NoSpread == ExtendedItems

\* {**SIMPLE_FIELDS, ...}: the items of SIMPLE_FIELDS first, then the rest.
FULL_FIELDS == SIMPLE_FIELDS \o ExtendedItems

\* dict.values() of a registry, as a set.
Names(fields) == {fields[k].name : k \in 1..Len(fields)}

---------------------------------------------------------------------------
(* Text helpers: what re.search and str.strip compute *)

\* s[i..j] (1-based, inclusive), empty when j < i.
Slice(s, i, j) == [k \in 1..(j - i + 1) |-> s[i + k - 1]]

\* key occurs in s starting at position i.
OccursAt(s, key, i) ==
    /\ i >= 1
    /\ i + Len(key) - 1 <= Len(s)
    /\ \A j \in 1..Len(key) : s[i + j - 1] = key[j]

\* rf"{key}([^\n\r]+)" matches at position i: the key, then at least one
\* character that is neither LF nor CR.
MatchAt(s, key, i) ==
    /\ OccursAt(s, key, i)
    /\ i + Len(key) <= Len(s)
    /\ s[i + Len(key)] \notin LineTerminators

\* A search that returns the rightmost match instead.
SearchStartLast(s, key) ==
    LET m == {i \in 1..Len(s) : MatchAt(s, key, i)}
    IN  IF m = {} THEN 0 ELSE CHOOSE i \in m : \A j \in m : i >= j

\* re.search scans from the left and returns the leftmost match: the start
\* of that match, 0 (no match object) when the pattern matches nowhere.
SearchStart(s, key) ==
    LET m == {i \in 1..Len(s) : MatchAt(s, key, i)}
    IN  IF m = {} THEN 0 ELSE CHOOSE i \in m : \A j \in m : i <= j

\* The end of the greedy run [^\n\r]+ whose last character so far is at e.
RECURSIVE RunEnd(_, _)
RunEnd(s, e) ==
    IF e + 1 <= Len(s) /\ s[e + 1] \notin LineTerminators
    THEN RunEnd(s, e + 1)
    ELSE e

\* match.group(1) of the match starting at i.
Group1(s, key, i) == Slice(s, i + Len(key), RunEnd(s, i + Len(key)))

\* str.lstrip() and str.rstrip() as positions: the first and the last
\* character that is kept.
RECURSIVE FirstKept(_, _)
FirstKept(s, i) ==
    IF i <= Len(s) /\ s[i] \in Whitespace THEN FirstKept(s, i + 1) ELSE i

RECURSIVE LastKept(_, _)
LastKept(s, j) ==
    IF j >= 1 /\ s[j] \in Whitespace THEN LastKept(s, j - 1) ELSE j

\* str.lstrip() in the place of str.strip().
StripLeading(s) == Slice(s, FirstKept(s, 1), Len(s))

\* str.strip(): leading and trailing whitespace removed.
Strip(s) == Slice(s, FirstKept(s, 1), LastKept(s, Len(s)))

---------------------------------------------------------------------------
(* parse_aamva *)

EmptyDict == [n \in {} |-> <<>>]

\* The items of fields.items() for which re.search returns a match.
Matched(s, fields) ==
    {k \in 1..Len(fields) : SearchStart(s, fields[k].code) # 0}

\* A parse that also keeps the line of the unregistered tag ZZZ, as an item
\* under the tag itself.
parse_aamva_keeping_unknown(s, fields) ==
    LET hit == Matched(s, fields)
        known == [n \in {fields[k].name : k \in hit} |->
                    LET k == CHOOSE j \in hit :
                                /\ fields[j].name = n
                                /\ \A i \in hit : fields[i].name = n => i <= j
                    IN  Strip(Group1(s, fields[k].code, SearchStart(s, fields[k].code)))]
        at == SearchStart(s, <<"Z", "Z", "Z">>)
    IN  IF at = 0 THEN known
        ELSE [n \in DOMAIN known \cup {"ZZZ"} |->
                IF n = "ZZZ" THEN Strip(Group1(s, <<"Z", "Z", "Z">>, at)) ELSE known[n]]

\* The loop of parse_aamva: parsed_data[name] = value for every matched item
\* in the order of fields.items(), so the last matched item of a name is the
\* one whose value stays.
parse_aamva(s, fields) ==
    LET hit == Matched(s, fields)
    IN  [n \in {fields[k].name : k \in hit} |->
            LET k == CHOOSE j \in hit :
                        /\ fields[j].name = n
                        /\ \A i \in hit : fields[i].name = n => i <= j
                key == fields[k].code
            IN  Strip(Group1(s, key, SearchStart(s, key)))]

---------------------------------------------------------------------------
(* decode_barcode *)

\* Python values a call returns.
None == [kind |-> "None"]

\* A return that turns an empty record into None (return parsed or None).
DictOrNone(d) == IF DOMAIN d = {} THEN None ELSE [kind |-> "dict", value |-> d]

\* return parse_aamva(raw_text, ...): the record itself, empty or not.
Dict(d) == [kind |-> "dict", value |-> d]
RawDict(rs) == [kind |-> "raw", results |-> rs]

\* A result of the detector: a dict whose item "parsed", when it is there,
\* is bytes; text is what the bytes decode to when they are valid UTF-8.
NoParsed == [has_parsed |-> FALSE, utf8 |-> TRUE, text |-> <<>>]
InvalidBytes == [has_parsed |-> TRUE, utf8 |-> FALSE, text |-> <<>>]
ValidBytes(text) == [has_parsed |-> TRUE, utf8 |-> TRUE, text |-> text]

\* result.get("parsed", b"").decode("utf-8") raises UnicodeDecodeError.
DecodeRaises(result) == result.has_parsed /\ ~result.utf8

\* What it returns otherwise.
DecodedText(result) == IF result.has_parsed THEN result.text ELSE <<>>

\* {k: v.decode('utf-8') if isinstance(v, bytes) else v ...} of one result.
RawItem(result) == [has_parsed |-> result.has_parsed, text |-> DecodedText(result)]

\* A check of the path that every path passes.
IsFileUnchecked(image_path) == TRUE

\* Path(image_path).is_file(); Path(None) raises TypeError.
IsFile(image_path) == image_path = "file"

\* The body of decode_barcode inside its try, after the detector returned
\* results for an image that is a file.
DecodeResults(mode, results) ==
    IF results = <<>> THEN None                  \* not results
    ELSE IF DecodeRaises(results[1]) THEN None   \* except Exception
    ELSE LET raw_text == DecodedText(results[1])
         IN  CASE mode = "raw" ->
                    IF \E i \in 1..Len(results) : DecodeRaises(results[i])
                    THEN None
                    ELSE RawDict([i \in 1..Len(results) |-> RawItem(results[i])])
               [] mode = "simple" -> Dict(parse_aamva(raw_text, SIMPLE_FIELDS))
               [] mode = "full" -> Dict(parse_aamva(raw_text, FULL_FIELDS))
               [] OTHER -> None                  \* falls off the end

\* decode_barcode(image_path, mode) when the detector would return results:
\* what it returns and whether it called the detector.
decode_barcode(image_path, mode, results) ==
    IF image_path = "None" THEN [detector_calls |-> 0, ret |-> None]
    ELSE IF ~IsFile(image_path) THEN [detector_calls |-> 0, ret |-> None]
    ELSE [detector_calls |-> 1, ret |-> DecodeResults(mode, results)]

---------------------------------------------------------------------------
(* generate_barcode *)

\* JSON values: strings and integers.
JStr(text) == [t |-> "str", v |-> text]
JInt(n) == [t |-> "int", v |-> n]

DigitChar(n) == <<"0", "1", "2", "3", "4", "5", "6", "7", "8", "9">>[n + 1]

\* str(n) of a natural number.
RECURSIVE IntStr(_)
IntStr(n) == IF n < 10 THEN <<DigitChar(n)>>
             ELSE IntStr(n \div 10) \o <<DigitChar(n % 10)>>

\* What the f-string puts for {data[field]}.
Format(value) == IF value.t = "str" THEN value.v ELSE IntStr(value.v)

\* The JSON object is a dict in the order of the file: a sequence of items.
HasKey(obj, field) == \E i \in 1..Len(obj) : obj[i].key = field
Get(obj, field) == obj[CHOOSE i \in 1..Len(obj) : obj[i].key = field].value

\* "\n".join(lines)
RECURSIVE JoinLF(_)
JoinLF(lines) ==
    IF lines = <<>> THEN <<>>
    ELSE IF Len(lines) = 1 THEN lines[1]
    ELSE lines[1] \o <<LF>> \o JoinLF(Tail(lines))

\* [field for field in FULL_FIELDS.values() if field not in data]
MissingFields(obj) ==
    LET absent == SelectSeq(FULL_FIELDS, LAMBDA it : ~HasKey(obj, it.name))
    IN  [i \in 1..Len(absent) |-> absent[i].name]

\* The lines in the order of the record's own items.
CodeOf(name) == FULL_FIELDS[CHOOSE k \in 1..Len(FULL_FIELDS) : FULL_FIELDS[k].name = name].code

LinesInRecordOrder(obj) ==
    LET known == SelectSeq(obj, LAMBDA it : it.key \in Names(FULL_FIELDS))
    IN  [i \in 1..Len(known) |-> CodeOf(known[i].key) \o Format(known[i].value)]

\* f"{code}{data[field]}" for code, field in FULL_FIELDS.items() if field in data
Lines(obj) ==
    LET present == SelectSeq(FULL_FIELDS, LAMBDA it : HasKey(obj, it.name))
    IN  [i \in 1..Len(present) |->
            present[i].code \o Format(Get(obj, present[i].name))]

\* The AAMVA-formatted string handed to the encoder.
AamvaData(obj) == JoinLF(Lines(obj))

\* The outcome of a call that ended before the encoder was reached:
\* open or json.load raised, or `field not in data` did (data is no container).
NotEncoded == [missing_fields |-> <<>>, warned |-> FALSE, encoder_calls |-> 0,
               aamva_data |-> <<>>, encoded |-> FALSE, rendered |-> FALSE,
               saved |-> FALSE, ret |-> FALSE]

\* A call that returns True as soon as the encoder accepted the payload,
\* whatever render_image and image.save did.
EncodedUnchecked(missing_fields, aamva_data, env) ==
    [missing_fields |-> missing_fields,
     warned |-> missing_fields # <<>>,
     encoder_calls |-> 1,
     aamva_data |-> aamva_data,
     encoded |-> env.encode_ok,
     rendered |-> env.encode_ok /\ env.render_ok,
     saved |-> env.encode_ok /\ env.render_ok /\ env.save_ok,
     ret |-> env.encode_ok]

\* The call from the encoder on: pdf417gen.encode, then render_image, then
\* image.save, each reached only when the one before returned, and True
\* returned only after the save.
Encoded(missing_fields, aamva_data, env) ==
    [missing_fields |-> missing_fields,
     warned |-> missing_fields # <<>>,
     encoder_calls |-> 1,
     aamva_data |-> aamva_data,
     encoded |-> env.encode_ok,
     rendered |-> env.encode_ok /\ env.render_ok,
     saved |-> env.encode_ok /\ env.render_ok /\ env.save_ok,
     ret |-> env.encode_ok /\ env.render_ok /\ env.save_ok]

\* A generate_barcode that gives up when fields are missing.
generate_barcode_strict(f, env) ==
    IF f.state \in {"unreadable", "invalid", "scalar"} THEN NotEncoded
    ELSE IF MissingFields(f.data) # <<>>
         THEN [NotEncoded EXCEPT !.missing_fields = MissingFields(f.data),
                                 !.warned = TRUE]
         ELSE Encoded(MissingFields(f.data), AamvaData(f.data), env)

\* generate_barcode on the file f; env says which of the external steps
\* (pdf417gen.encode, pdf417gen.render_image, image.save) succeed.
generate_barcode(f, env) ==
    IF f.state \in {"unreadable", "invalid", "scalar"} THEN NotEncoded
    ELSE Encoded(MissingFields(f.data), AamvaData(f.data), env)

---------------------------------------------------------------------------
(* The objects the calls share *)

\* A parse_aamva whose dict outlives the call and is filled again by the next.
SharedDict(previous) == previous

\* parsed_data = {}: every call starts with a dict of its own.
NewDict(previous) == EmptyDict

\* parsed_data[name] = value for each item: an assignment replaces the value
\* of a name the dict already holds.
Assign(d, items) ==
    [n \in DOMAIN d \cup DOMAIN items |-> IF n \in DOMAIN items THEN items[n] ELSE d[n]]

\* The module once imported: the two registry dicts; no parse_aamva has built
\* a dict and no generate_barcode has loaded a record.
Loaded ==
    [SIMPLE_FIELDS |-> SIMPLE_FIELDS, FULL_FIELDS |-> FULL_FIELDS,
     parsed_data |-> EmptyDict, record |-> <<>>]

\* A call parse_aamva(s, fields) with the objects h, fields naming the
\* registry passed: the objects after the call and the dict returned. The
\* call reads fields.items() and writes only into parsed_data.
parse_aamva_call(h, s, fields) ==
    LET parsed_data == Assign(NewDict(h.parsed_data), parse_aamva(s, h[fields]))
    IN  [heap |-> [h EXCEPT !.parsed_data = parsed_data], ret |-> parsed_data]

\* A call generate_barcode on the file f with the objects h: data is the
\* dict json.load built, which the call reads and never writes.
generate_barcode_call(h, f, env) ==
    [heap |-> [h EXCEPT !.record = f.data], ret |-> generate_barcode(f, env)]

---------------------------------------------------------------------------
(* PDF417Encoder (ref/not-working/dev_v2.py) *)

\* Python's int operators on natural numbers.
ShiftLeft(x, n) == x * 2^n
ShiftRight(x, n) == x \div 2^n

RECURSIVE BitOr(_, _)
BitOr(a, b) ==
    IF a = 0 THEN b
    ELSE IF b = 0 THEN a
    ELSE (IF a % 2 = 1 \/ b % 2 = 1 THEN 1 ELSE 0) + 2 * BitOr(a \div 2, b \div 2)

RECURSIVE BitAnd(_, _)
BitAnd(a, b) ==
    IF a = 0 \/ b = 0 THEN 0
    ELSE (IF a % 2 = 1 /\ b % 2 = 1 THEN 1 ELSE 0) + 2 * BitAnd(a \div 2, b \div 2)

RECURSIVE BitXor(_, _)
BitXor(a, b) ==
    IF a = 0 THEN b
    ELSE IF b = 0 THEN a
    ELSE (IF a % 2 # b % 2 THEN 1 ELSE 0) + 2 * BitXor(a \div 2, b \div 2)

\* The characters of the texts encoded; a character outside ASCII is written
\* by its code point.
EncoderChars == {"U+0000", LF, "9", "A", "U+00FF", "U+20AC"}

\* ord(char)
Ord(char) ==
    CASE char = "U+0000" -> 0
      [] char = LF -> 10
      [] char = "9" -> 57
      [] char = "A" -> 65
      [] char = "U+00FF" -> 255
      [] char = "U+20AC" -> 8364

\* The bits a character adds to current_word, and the bits of a codeword.
CharBits == 8
WordBits == 16

\* while bit_count >= 16: append the bits above the lowest bit_count - 16
\* and keep those.
RECURSIVE Drain(_)
Drain(st) ==
    IF st.bit_count >= WordBits
    THEN Drain([codewords |-> Append(st.codewords,
                                     ShiftRight(st.current_word, st.bit_count - WordBits)),
                current_word |-> BitAnd(st.current_word,
                                        ShiftLeft(1, st.bit_count - WordBits) - 1),
                bit_count |-> st.bit_count - WordBits])
    ELSE st

\* The body of `for char in text`.
PackChar(st, char) ==
    Drain([codewords |-> st.codewords,
           current_word |-> BitOr(ShiftLeft(st.current_word, CharBits), Ord(char)),
           bit_count |-> st.bit_count + CharBits])

RECURSIVE PackText(_, _)
PackText(st, text) ==
    IF text = <<>> THEN st ELSE PackText(PackChar(st, Head(text)), Tail(text))

\* PDF417Encoder.text_to_codewords(text)
text_to_codewords(text) ==
    LET st == PackText([codewords |-> <<>>, current_word |-> 0, bit_count |-> 0], text)
    IN  IF st.bit_count > 0
        THEN Append(st.codewords, ShiftLeft(st.current_word, WordBits - st.bit_count))
        ELSE st.codewords

\* for cw in codewords: for i in range(level): error_codewords[i] ^= cw
RECURSIVE XorAll(_, _)
XorAll(error_codewords, codewords) ==
    IF codewords = <<>> THEN error_codewords
    ELSE XorAll([i \in 1..Len(error_codewords) |->
                    BitXor(error_codewords[i], Head(codewords))],
                Tail(codewords))

\* PDF417Encoder.calculate_error_correction(codewords, error_correction_level):
\* [0] * error_correction_level, then the loop.
calculate_error_correction(codewords, error_correction_level) ==
    XorAll([i \in 1..error_correction_level |-> 0], codewords)

\* error_correction_level=2 in the signature of calculate_error_correction.
DefaultLevel == 2

\* PDF417Encoder.encode(data): the codewords, the error codewords and their
\* concatenation.
encode(text) ==
    LET codewords == text_to_codewords(text)
        error_codewords == calculate_error_correction(codewords, DefaultLevel)
    IN  [codewords |-> codewords, error_codewords |-> error_codewords,
         full_codewords |-> codewords \o error_codewords]

---------------------------------------------------------------------------
(* main *)

\* --columns: choices=range(1, 31), default 10.
MinColumns == 1
MaxColumns == 30
DefaultColumns == 10

\* --security: choices=range(0, 9), default 2.
MinSecurity == 0
MaxSecurity == 8
DefaultSecurity == 2

\* A command-line value for an option of type=int: an integer, or text that
\* int() rejects.
IntArg(n) == [is_int |-> TRUE, v |-> n]
NotAnInt == [is_int |-> FALSE, v |-> 0]

\* argparse accepts the value: int() converts it and it is among the choices.
Accepted(arg, lo, hi) == arg.is_int /\ arg.v \in lo..hi

\* Argument checks that leave the choices of --columns and --security out.
ArgsOkNoChoices(args) ==
    /\ args.columns.is_int
    /\ args.security.is_int
    /\ (args.generate = "absent") # (args.image = "absent")

\* parser.parse_args() returns (it exits with status 2 otherwise): the two
\* int options are accepted and exactly one of image and -g is given.
ArgsOk(args) ==
    /\ Accepted(args.columns, MinColumns, MaxColumns)
    /\ Accepted(args.security, MinSecurity, MaxSecurity)
    /\ (args.generate = "absent") # (args.image = "absent")

\* if args.generate: an empty string given to -g is falsy.
GenerateBranch(args) == args.generate = "path"

\* The decoding mode of the flags, "none" when parser.error is called.
ModeOf(args) ==
    IF args.simple THEN "simple"
    ELSE IF args.full THEN "full"
    ELSE IF args.raw THEN "raw"
    ELSE "none"

\* args.image as decode_barcode sees it: None when no image was given.
ImagePathOf(args, image_state) ==
    IF args.image = "absent" THEN "None" ELSE image_state

\* if result: an empty dict and None are not printed.
Truthy(ret) == ret.kind = "raw" \/ (ret.kind = "dict" /\ DOMAIN ret.value # {})

---------------------------------------------------------------------------
(* Inputs *)

\* The pieces payloads are built of: registered tags (one of SIMPLE_FIELDS,
\* one only of FULL_FIELDS), an unregistered tag, value characters,
\* whitespace and line terminators.
Pieces ==
    { <<"D", "C", "S">>, <<"D", "A", "Y">>, <<"Z", "Z", "Z">>,
      <<"A">>, <<"9">>, <<SP>>, <<LF>>, <<CR>> }

RECURSIVE Concat(_)
Concat(ps) == IF ps = <<>> THEN <<>> ELSE Head(ps) \o Concat(Tail(ps))

PayloadsOf(max) == {Concat(ps) : ps \in UNION {[1..n -> Pieces] : n \in 0..max}}

Payloads == PayloadsOf(MaxPieces)

\* What the detector may return for an image that carries text: nothing, or
\* one or two results, the first without "parsed", with bytes that are not
\* UTF-8, or with the text.
SecondText == <<"D", "C", "S", "9">>

DetectorResults(text) ==
    LET first == {NoParsed, InvalidBytes, ValidBytes(text)}
        second == {InvalidBytes, ValidBytes(SecondText)}
    IN  {<<>>} \cup {<<r>> : r \in first}
               \cup {<<r, q>> : r \in first, q \in second}

ImagePaths == {"None", "missing", "file"}
Modes == {"raw", "simple", "full"}

\* JSON values of the input records: empty, plain, with a leading space, one
\* that completes a tag with the end of the tag before it (DAD + AC), one
\* that holds a tag, one that holds a line feed, and a number.
Values ==
    { JStr(<<>>), JStr(<<"A">>), JStr(<<"C">>), JStr(<<SP, "A">>),
      JStr(<<"A", "C", "9">>), JStr(<<"D", "A", "C", "9">>),
      JStr(<<"A", LF, "C">>), JInt(9) }

\* Keys of the input records: names of the registry and one it does not know.
Keys == {"LastName", "FirstName", "MiddleName", "ZZZ"}

Objects ==
    {obj \in UNION {[1..n -> [key : Keys, value : Values]] : n \in 0..MaxKeys} :
        \A i, j \in 1..Len(obj) : obj[i].key = obj[j].key => i = j}

\* The record that holds every field of FULL_FIELDS.
FullRecord ==
    [k \in 1..Len(FULL_FIELDS) |->
        [key |-> FULL_FIELDS[k].name, value |-> JStr(<<"9">>)]]

JsonFile(state, obj) == [state |-> state, data |-> obj]

JsonFiles ==
    {JsonFile(s, <<>>) : s \in {"unreadable", "invalid", "scalar", "list"}}
        \cup {JsonFile("object", obj) : obj \in Objects \cup {FullRecord}}

Envs == [encode_ok : BOOLEAN, render_ok : BOOLEAN, save_ok : BOOLEAN]

\* Command lines: each of image and -g absent or given (-g also with an
\* empty string), the three mode flags, and values of --columns and
\* --security at and beyond the ends of their ranges.
ColumnArgs ==
    {IntArg(n) : n \in {MinColumns - 1, MinColumns, DefaultColumns,
                        MaxColumns, MaxColumns + 1}} \cup {NotAnInt}

SecurityArgs ==
    {IntArg(n) : n \in {MinSecurity - 1, MinSecurity, DefaultSecurity,
                        MaxSecurity, MaxSecurity + 1}} \cup {NotAnInt}

Args ==
    [generate : {"absent", "empty", "path"}, image : {"absent", "path"},
     simple : BOOLEAN, full : BOOLEAN, raw : BOOLEAN,
     columns : ColumnArgs, security : SecurityArgs]

\* The files a run of main finds: the image's payload and the JSON file.
MainPayloads == {<<>>, <<"D", "C", "S", "A">>}

MainJsonFiles ==
    { JsonFile("invalid", <<>>),
      JsonFile("object", <<[key |-> "LastName", value |-> JStr(<<"A">>)]>>) }

---------------------------------------------------------------------------
(* State *)

NoCall == [called |-> FALSE]
Returned(v) == [called |-> TRUE, value |-> v]

NoFile == JsonFile("unreadable", <<>>)

Idle ==
    /\ parsed = [simple |-> NoCall, full |-> NoCall]
    /\ dec = NoCall
    /\ gen = NoCall
    /\ reparsed = NoCall
    /\ cli = NoCall
    /\ heap = Loaded
    /\ calls = <<>>
    /\ enc = NoCall

---------------------------------------------------------------------------
(* Calls of parse_aamva on a payload *)

Init ==
    /\ data \in Payloads
    /\ json_file = NoFile
    /\ Idle

ParseSimple ==
    /\ parsed' = [parsed EXCEPT !.simple = Returned(parse_aamva(data, SIMPLE_FIELDS))]
    /\ UNCHANGED <<data, dec, json_file, gen, reparsed, cli, heap, calls, enc>>

ParseFull ==
    /\ parsed' = [parsed EXCEPT !.full = Returned(parse_aamva(data, FULL_FIELDS))]
    /\ UNCHANGED <<data, dec, json_file, gen, reparsed, cli, heap, calls, enc>>

Next == ParseSimple \/ ParseFull

Spec == Init /\ [][Next]_vars

---------------------------------------------------------------------------
(* Calls of decode_barcode on an image *)

InitDecode ==
    /\ data \in PayloadsOf(MaxDecodePieces)
    /\ json_file = NoFile
    /\ Idle

DecodeBarcode ==
    \E image_path \in ImagePaths, mode \in Modes \cup {"other"} :
        \E results \in (IF IsFile(image_path) THEN DetectorResults(data) ELSE {<<>>}) :
            LET r == decode_barcode(image_path, mode, results)
            IN  /\ dec' = [called |-> TRUE, image_path |-> image_path,
                           mode |-> mode, results |-> results,
                           detector_calls |-> r.detector_calls, ret |-> r.ret]
                /\ UNCHANGED <<data, parsed, json_file, gen, reparsed, cli, heap, calls, enc>>

NextDecode == DecodeBarcode

SpecDecode == InitDecode /\ [][NextDecode]_vars

---------------------------------------------------------------------------
(* Calls of generate_barcode on a JSON file, and the parse of its payload *)

InitGen ==
    /\ data = <<>>
    /\ json_file \in JsonFiles
    /\ Idle

GenerateBarcode ==
    \E env \in Envs :
        /\ gen' = [called |-> TRUE, columns |-> DefaultColumns,
                   security |-> DefaultSecurity] @@ generate_barcode(json_file, env)
        /\ reparsed' = NoCall
        /\ UNCHANGED <<data, parsed, dec, json_file, cli, heap, calls, enc>>

\* parse_aamva(payload, FULL_FIELDS) of the payload the last call built.
ParseGenerated ==
    /\ gen.called
    /\ gen.encoder_calls = 1
    /\ reparsed' = Returned(parse_aamva(gen.aamva_data, FULL_FIELDS))
    /\ UNCHANGED <<data, parsed, dec, json_file, gen, cli, heap, calls, enc>>

NextGen == GenerateBarcode \/ ParseGenerated

SpecGen == InitGen /\ [][NextGen]_vars

---------------------------------------------------------------------------
(* Runs of main *)

InitMain ==
    /\ data \in MainPayloads
    /\ json_file \in MainJsonFiles
    /\ Idle

\* The run ends in parser.parse_args() or parser.error(): exit status 2.
MainUsageError(args) ==
    /\ ~cli.called
    /\ ~ArgsOk(args) \/ (~GenerateBranch(args) /\ ModeOf(args) = "none")
    /\ cli' = [called |-> TRUE, args |-> args, exit |-> 2,
               generate_calls |-> 0, decode_calls |-> 0, printed |-> "usage"]
    /\ UNCHANGED <<data, parsed, dec, json_file, gen, reparsed, heap, calls, enc>>

\* The run calls generate_barcode with the options of the command line.
MainGenerate(args) ==
    /\ ~cli.called
    /\ ArgsOk(args)
    /\ GenerateBranch(args)
    /\ \E env \in Envs :
          LET r == generate_barcode(json_file, env)
          IN  /\ gen' = [called |-> TRUE, columns |-> args.columns.v,
                         security |-> args.security.v] @@ r
              /\ cli' = [called |-> TRUE, args |-> args, exit |-> 0,
                         generate_calls |-> 1, decode_calls |-> 0,
                         printed |-> IF r.ret THEN "successful" ELSE "failed"]
    /\ UNCHANGED <<data, parsed, dec, json_file, reparsed, heap, calls, enc>>

\* The run calls decode_barcode with the mode of the flags.
MainDecode(args) ==
    /\ ~cli.called
    /\ ArgsOk(args)
    /\ ~GenerateBranch(args)
    /\ ModeOf(args) # "none"
    /\ \E image_state \in {"missing", "file"} :
          LET image_path == ImagePathOf(args, image_state)
          IN  \E results \in (IF IsFile(image_path) THEN DetectorResults(data)
                                                    ELSE {<<>>}) :
                LET r == decode_barcode(image_path, ModeOf(args), results)
                IN  /\ dec' = [called |-> TRUE, image_path |-> image_path,
                               mode |-> ModeOf(args), results |-> results,
                               detector_calls |-> r.detector_calls, ret |-> r.ret]
                    /\ cli' = [called |-> TRUE, args |-> args, exit |-> 0,
                               generate_calls |-> 0, decode_calls |-> 1,
                               printed |-> IF Truthy(r.ret) THEN "json" ELSE "nothing"]
    /\ UNCHANGED <<data, parsed, json_file, gen, reparsed, heap, calls, enc>>

\* One run of main on a command line: it ends in one of the three ways.
Main ==
    \E args \in Args :
        \/ MainUsageError(args)
        \/ MainGenerate(args)
        \/ MainDecode(args)

NextMain == Main

SpecMain == InitMain /\ [][NextMain]_vars

---------------------------------------------------------------------------
(* Calls of parse_aamva and generate_barcode one after another *)

\* The number of calls made in one process.
MaxCalls == 3

CallPayloads ==
    { <<>>, <<"D", "C", "S", "A">>, <<"D", "C", "S", "9">>,
      <<"D", "A", "Y", "9">>, <<"Z", "Z", "Z", "A">> }

CallJsonFiles ==
    { JsonFile("invalid", <<>>),
      JsonFile("object", <<[key |-> "LastName", value |-> JStr(<<"A">>)]>>),
      JsonFile("object", <<[key |-> "FirstName", value |-> JStr(<<"C">>)],
                           [key |-> "LastName", value |-> JStr(<<"A">>)]>>) }

CallEnvs == {env \in Envs : env.render_ok /\ env.save_ok}

InitCalls ==
    /\ data = <<>>
    /\ json_file = NoFile
    /\ Idle

CallParse ==
    /\ Len(calls) < MaxCalls
    /\ \E s \in CallPayloads, fields \in {"SIMPLE_FIELDS", "FULL_FIELDS"} :
          LET r == parse_aamva_call(heap, s, fields)
          IN  /\ heap' = r.heap
              /\ calls' = Append(calls, [op |-> "parse_aamva", data |-> s,
                                         fields |-> fields, file |-> NoFile,
                                         ret |-> r.ret])
    /\ UNCHANGED <<data, parsed, dec, json_file, gen, reparsed, cli, enc>>

CallGenerate ==
    /\ Len(calls) < MaxCalls
    /\ \E f \in CallJsonFiles, env \in CallEnvs :
          LET r == generate_barcode_call(heap, f, env)
          IN  /\ heap' = r.heap
              /\ calls' = Append(calls, [op |-> "generate_barcode", data |-> <<>>,
                                         fields |-> "FULL_FIELDS", file |-> f,
                                         ret |-> r.ret])
    /\ UNCHANGED <<data, parsed, dec, json_file, gen, reparsed, cli, enc>>

NextCalls == CallParse \/ CallGenerate

SpecCalls == InitCalls /\ [][NextCalls]_vars

---------------------------------------------------------------------------
(* Calls of the methods of PDF417Encoder on a text *)

\* The number of characters of a text given to the encoder.
MaxTextLen == 3

EncoderTexts == UNION {[1..n -> EncoderChars] : n \in 0..MaxTextLen}

\* The error-correction levels of PDF417.
Levels == 0..8

InitEncoder ==
    /\ data \in EncoderTexts
    /\ json_file = NoFile
    /\ Idle

TextToCodewords ==
    /\ enc' = [called |-> TRUE, op |-> "text_to_codewords", level |-> DefaultLevel,
               codewords |-> text_to_codewords(data), error_codewords |-> <<>>,
               full_codewords |-> <<>>]
    /\ UNCHANGED <<data, parsed, dec, json_file, gen, reparsed, cli, heap, calls>>

CalculateErrorCorrection ==
    \E level \in Levels :
        LET codewords == text_to_codewords(data)
        IN  /\ enc' = [called |-> TRUE, op |-> "calculate_error_correction",
                       level |-> level, codewords |-> codewords,
                       error_codewords |-> calculate_error_correction(codewords, level),
                       full_codewords |-> <<>>]
            /\ UNCHANGED <<data, parsed, dec, json_file, gen, reparsed, cli, heap, calls>>

Encode ==
    /\ enc' = [called |-> TRUE, op |-> "encode", level |-> DefaultLevel] @@ encode(data)
    /\ UNCHANGED <<data, parsed, dec, json_file, gen, reparsed, cli, heap, calls>>

NextEncoder == TextToCodewords \/ CalculateErrorCorrection \/ Encode

SpecEncoder == InitEncoder /\ [][NextEncoder]_vars

---------------------------------------------------------------------------
(* Vocabulary of the properties, stated on the text itself *)

MinOf(S) == CHOOSE x \in S : \A y \in S : x <= y
MaxOf(S) == CHOOSE x \in S : \A y \in S : x >= y

\* The positions where code occurs in s as a substring.
Occurrences(s, code) ==
    {i \in 1..(Len(s) - Len(code) + 1) : SubSeq(s, i, i + Len(code) - 1) = code}

\* The occurrence at i is followed by a character other than CR and LF.
Followed(s, code, i) ==
    /\ i + Len(code) <= Len(s)
    /\ s[i + Len(code)] \notin {"\n", "\r"}

\* The text from position p up to the next CR or LF, or to the end.
RestOfLine(s, p) ==
    LET stops == {q \in p..Len(s) : s[q] \in {"\n", "\r"}}
    IN  IF stops = {} THEN SubSeq(s, p, Len(s)) ELSE SubSeq(s, p, MinOf(stops) - 1)

\* t without its leading and trailing whitespace.
Trimmed(t) ==
    LET keep == {i \in 1..Len(t) : t[i] \notin {" ", "\t", "\n", "\r"}}
    IN  IF keep = {} THEN <<>> ELSE SubSeq(t, MinOf(keep), MaxOf(keep))

\* The value of the occurrence of code at i.
ValueAfter(s, code, i) == Trimmed(RestOfLine(s, i + Len(code)))

\* A dict restricted to the names of S.
Restrict(d, S) == [n \in DOMAIN d \cap S |-> d[n]]

---------------------------------------------------------------------------
(* C2: a duplicated tag *)

\* code occurs more than once, each time followed by a value character.
Duplicated(s, code) ==
    /\ Cardinality(Occurrences(s, code)) > 1
    /\ \A i \in Occurrences(s, code) : Followed(s, code, i)

\* The value recorded for a duplicated tag is that of its last (or first)
\* occurrence.
OccurrenceWins(res, fields, last) ==
    res.called =>
        \A k \in 1..Len(fields) :
            Duplicated(data, fields[k].code) =>
                /\ fields[k].name \in DOMAIN res.value
                /\ res.value[fields[k].name] =
                      ValueAfter(data, fields[k].code,
                                 IF last THEN MaxOf(Occurrences(data, fields[k].code))
                                         ELSE MinOf(Occurrences(data, fields[k].code)))

\* C2 as claimed: when a registered tag occurs more than once in the payload,
\* each occurrence followed by a character other than CR/LF, parse_aamva
\* records the value of the LAST occurrence.
C2_LastOccurrenceWins ==
    /\ OccurrenceWins(parsed.simple, SIMPLE_FIELDS, TRUE)
    /\ OccurrenceWins(parsed.full, FULL_FIELDS, TRUE)

\* C2 as amended: when a registered tag occurs more than once in the payload,
\* each occurrence followed by a character other than CR/LF, parse_aamva
\* records the value of the FIRST (leftmost) occurrence.
C2_FirstOccurrenceWins ==
    /\ OccurrenceWins(parsed.simple, SIMPLE_FIELDS, FALSE)
    /\ OccurrenceWins(parsed.full, FULL_FIELDS, FALSE)

\* A parse of a payload where a tag occurs twice with two different values.
C2_Witness ==
    /\ parsed.full.called
    /\ \E k \in 1..Len(FULL_FIELDS) :
          LET code == FULL_FIELDS[k].code
              occ == Occurrences(data, code)
          IN  /\ Duplicated(data, code)
              /\ ValueAfter(data, code, MinOf(occ)) # ValueAfter(data, code, MaxOf(occ))
              /\ parsed.full.value[FULL_FIELDS[k].name] = ValueAfter(data, code, MinOf(occ))

---------------------------------------------------------------------------
(* C3: unregistered tags *)

UnknownTag == <<"Z", "Z", "Z">>

\* A line of s starts with the unregistered tag and carries a value.
HasUnknownLine(s) ==
    \E i \in Occurrences(s, UnknownTag) :
        /\ i = 1 \/ s[i - 1] \in {"\n", "\r"}
        /\ Followed(s, UnknownTag, i)

---------------------------------------------------------------------------
(* C4: value extraction *)

\* Each tag of the registry occurs at most once in s as a substring.
OccursAtMostOnce(s, fields) ==
    \A k \in 1..Len(fields) : Cardinality(Occurrences(s, fields[k].code)) <= 1

ExtractionExact(res, fields) ==
    (res.called /\ OccursAtMostOnce(data, fields)) =>
        /\ DOMAIN res.value \subseteq Names(fields)
        /\ \A k \in 1..Len(fields) :
              LET code == fields[k].code
                  name == fields[k].name
                  occ == Occurrences(data, code)
              IN  /\ name \in DOMAIN res.value
                        <=> \E i \in occ : Followed(data, code, i)
                  /\ name \in DOMAIN res.value =>
                        \A i \in occ : res.value[name] = ValueAfter(data, code, i)
        /\ \A n \in DOMAIN res.value :
              LET v == res.value[n]
              IN  /\ \A i \in 1..Len(v) : v[i] \notin {"\n", "\r"}
                  /\ v # <<>> => /\ v[1] \notin {" ", "\t"}
                                 /\ v[Len(v)] \notin {" ", "\t"}

\* C4: for a payload in which each registered tag occurs at most once, a field
\* name is in the result iff its tag occurs followed by a character that is
\* neither CR nor LF; its value is the maximal run of non-CR/LF characters
\* after the tag, trimmed; no value holds CR or LF or surrounding whitespace.
C4_ValueExtraction ==
    /\ ExtractionExact(parsed.simple, SIMPLE_FIELDS)
    /\ ExtractionExact(parsed.full, FULL_FIELDS)

\* A parse that trimmed whitespace off a value and skipped a tag that is
\* followed by a line terminator or by nothing.
C4_Witness ==
    /\ parsed.full.called
    /\ OccursAtMostOnce(data, FULL_FIELDS)
    /\ \E k \in 1..Len(FULL_FIELDS) :
          LET code == FULL_FIELDS[k].code
              name == FULL_FIELDS[k].name
          IN  /\ name \in DOMAIN parsed.full.value
              /\ parsed.full.value[name] # <<>>
              /\ \E i \in Occurrences(data, code) :
                    parsed.full.value[name] # RestOfLine(data, i + Len(code))
    /\ \E k \in 1..Len(FULL_FIELDS) :
          /\ Occurrences(data, FULL_FIELDS[k].code) # {}
          /\ FULL_FIELDS[k].name \notin DOMAIN parsed.full.value

---------------------------------------------------------------------------
(* C9: the registries nest *)

\* C9: every item of SIMPLE_FIELDS is an item of FULL_FIELDS with the same
\* name, no two tags of FULL_FIELDS share a name, and the parse with
\* SIMPLE_FIELDS equals the parse with FULL_FIELDS restricted to the names of
\* SIMPLE_FIELDS.
C9_RegistriesNest ==
    /\ \A k \in 1..Len(SIMPLE_FIELDS) :
          \E j \in 1..Len(FULL_FIELDS) : FULL_FIELDS[j] = SIMPLE_FIELDS[k]
    /\ \A i, j \in 1..Len(FULL_FIELDS) :
          FULL_FIELDS[i].name = FULL_FIELDS[j].name => i = j
    /\ (parsed.simple.called /\ parsed.full.called) =>
          parsed.simple.value = Restrict(parsed.full.value, Names(SIMPLE_FIELDS))

\* Both registries parsed a payload that holds a field of SIMPLE_FIELDS and a
\* field only FULL_FIELDS knows.
C9_Witness ==
    /\ parsed.simple.called
    /\ parsed.full.called
    /\ DOMAIN parsed.simple.value # {}
    /\ DOMAIN parsed.full.value \ Names(SIMPLE_FIELDS) # {}

---------------------------------------------------------------------------
(* Vocabulary of the properties of generate_barcode *)

\* The input record maps names to texts.
IsObject == json_file.state = "object"

KeysOf(obj) == {obj[i].key : i \in 1..Len(obj)}

\* The text of the value of key n.
TextOf(obj, n) == Format(obj[CHOOSE i \in 1..Len(obj) : obj[i].key = n].value)

\* The field of item k of FULL_FIELDS is a key of the record.
Present(obj, k) == FULL_FIELDS[k].name \in KeysOf(obj)

\* The length of the line of item k, with the line feed that follows it.
LineLen(obj, k) ==
    IF Present(obj, k) THEN Len(FULL_FIELDS[k].code) + Len(TextOf(obj, FULL_FIELDS[k].name)) + 1
    ELSE 0

\* Where the line of item k starts when lines come in the order of
\* FULL_FIELDS, each followed by one line feed.
RECURSIVE StartOf(_, _)
StartOf(obj, k) == IF k = 1 THEN 1 ELSE StartOf(obj, k - 1) + LineLen(obj, k - 1)

\* The encoder was called with a payload built from an object.
Serialized == gen.called /\ gen.encoder_calls = 1 /\ IsObject

---------------------------------------------------------------------------
(* C1: round trip *)

\* Every key is a name of FULL_FIELDS and every value is a text that holds no
\* tag code of the registry.
CleanRecord(obj) ==
    \A i \in 1..Len(obj) :
        /\ obj[i].key \in Names(FULL_FIELDS)
        /\ obj[i].value.t = "str"
        /\ \A k \in 1..Len(FULL_FIELDS) :
              Occurrences(obj[i].value.v, FULL_FIELDS[k].code) = {}

\* C1 as claimed: for every record that maps names of FULL_FIELDS to texts
\* holding no tag code, parse_aamva of the payload generate_barcode builds
\* returns the record: the same names, each with its value, and no other.
C1_RoundTrip ==
    (Serialized /\ reparsed.called /\ CleanRecord(json_file.data)) =>
        reparsed.value =
            [n \in KeysOf(json_file.data) |-> TextOf(json_file.data, n)]

---------------------------------------------------------------------------
(* C5: serialization order *)

\* C5: the payload is exactly one tag+value line for every name of
\* FULL_FIELDS that is a key of the record and nothing else, in the order of
\* FULL_FIELDS whatever the order of the record's keys, with a single line
\* feed between lines.
C5_SerializationOrder ==
    Serialized =>
        LET obj == json_file.data
            payload == gen.aamva_data
            n == Len(FULL_FIELDS)
            total == StartOf(obj, n) + LineLen(obj, n) - 1
        IN  /\ Len(payload) = IF total = 0 THEN 0 ELSE total - 1
            /\ \A k \in 1..n :
                  Present(obj, k) =>
                      LET from == StartOf(obj, k)
                          code == FULL_FIELDS[k].code
                          text == TextOf(obj, FULL_FIELDS[k].name)
                          next == from + Len(code) + Len(text)
                      IN  /\ SubSeq(payload, from, from + Len(code) - 1) = code
                          /\ SubSeq(payload, from + Len(code), next - 1) = text
                          /\ next <= Len(payload) => payload[next] = "\n"

\* A record whose keys come in another order than in FULL_FIELDS, next to a
\* key the registry does not know, was serialized.
C5_Witness ==
    /\ Serialized
    /\ Len(json_file.data) = 2
    /\ json_file.data[1].key = "FirstName"
    /\ json_file.data[2].key = "LastName"
    /\ json_file.data[1].value # json_file.data[2].value
    /\ Len(gen.aamva_data) > 8

---------------------------------------------------------------------------
(* C6: the segmentation precondition *)

\* C6 as claimed: for every input record, in the payload handed to the
\* encoder each registered tag occurs as a substring only at the start of a
\* line, as the tag of the field on that line.
C6_TagsOnlyAtLineStart ==
    Serialized =>
        \A k \in 1..Len(FULL_FIELDS) :
            \A i \in Occurrences(gen.aamva_data, FULL_FIELDS[k].code) :
                /\ Present(json_file.data, k)
                /\ i = StartOf(json_file.data, k)

---------------------------------------------------------------------------
(* C8: any subset of the fields *)

\* C8: for a JSON object whose keys are a subset of the names of FULL_FIELDS,
\* generate_barcode logs the missing names (all of them, only when there are
\* some) and calls the encoder with the serialized payload; it returns False
\* only when encoding, rendering or saving failed.
C8_AnySubsetAccepted ==
    (gen.called /\ IsObject /\ KeysOf(json_file.data) \subseteq Names(FULL_FIELDS)) =>
        /\ gen.encoder_calls = 1
        /\ gen.warned <=> (Names(FULL_FIELDS) \ KeysOf(json_file.data) # {})
        /\ {gen.missing_fields[i] : i \in 1..Len(gen.missing_fields)}
              = Names(FULL_FIELDS) \ KeysOf(json_file.data)
        /\ Len(gen.aamva_data) =
              IF json_file.data = <<>> THEN 0
              ELSE StartOf(json_file.data, Len(FULL_FIELDS))
                      + LineLen(json_file.data, Len(FULL_FIELDS)) - 2
        /\ (gen.encoded /\ gen.rendered /\ gen.saved) => gen.ret

\* A record with a strict subset of the fields was encoded, with the warning,
\* and the call returned True.
C8_Witness ==
    /\ gen.called
    /\ IsObject
    /\ KeysOf(json_file.data) = {"LastName"}
    /\ gen.warned
    /\ gen.encoder_calls = 1
    /\ gen.ret

---------------------------------------------------------------------------
(* C7: no recognized tag *)

\* No tag of the registry occurs in s followed by a value character.
NoRecognizedTag(s, fields) ==
    \A k \in 1..Len(fields) :
        \A i \in Occurrences(s, fields[k].code) : ~Followed(s, fields[k].code, i)

RegistryOf(mode) == IF mode = "simple" THEN SIMPLE_FIELDS ELSE FULL_FIELDS

\* The detector's first result decodes to text.
FirstDecodes ==
    /\ dec.image_path = "file"
    /\ dec.results # <<>>
    /\ ~(dec.results[1].has_parsed /\ ~dec.results[1].utf8)

FirstText == IF dec.results[1].has_parsed THEN dec.results[1].text ELSE <<>>

\* C7: in simple and full mode decode_barcode returns the empty record for a
\* payload with no recognized tag, and None for a missing file, for no
\* detector result and for an exception.
C7_EmptyRecordNotNone ==
    dec.called =>
        /\ (FirstDecodes /\ dec.mode \in {"simple", "full"}
              /\ NoRecognizedTag(FirstText, RegistryOf(dec.mode)))
             => (dec.ret.kind = "dict" /\ DOMAIN dec.ret.value = {})
        /\ ~FirstDecodes => dec.ret.kind = "None"

\* A decode in simple mode of a text that holds characters and an
\* unregistered tag, but no registered one, returned the empty record.
C7_Witness ==
    /\ dec.called
    /\ dec.mode = "simple"
    /\ FirstDecodes
    /\ dec.results[1].has_parsed
    /\ Len(FirstText) > 3
    /\ dec.ret.kind = "dict"
    /\ DOMAIN dec.ret.value = {}

---------------------------------------------------------------------------
(* C10: the generation parameters *)

InRange(arg, lo, hi) == arg.is_int /\ lo <= arg.v /\ arg.v <= hi

\* C10: in every run of main that reaches the external encoder, columns is
\* an integer in 1..30 and the security level an integer in 0..8; a run with
\* a value outside these ranges ends before generate_barcode is called.
C10_ParametersBounded ==
    cli.called =>
        /\ (gen.called /\ gen.encoder_calls = 1) =>
              /\ cli.args.columns.is_int /\ cli.args.security.is_int
              /\ gen.columns = cli.args.columns.v
              /\ gen.security = cli.args.security.v
              /\ 1 <= gen.columns /\ gen.columns <= 30
              /\ 0 <= gen.security /\ gen.security <= 8
        /\ ~(InRange(cli.args.columns, 1, 30) /\ InRange(cli.args.security, 0, 8)) =>
              /\ cli.generate_calls = 0
              /\ ~gen.called
              /\ cli.exit = 2

\* A run of main reached the encoder with the largest number of columns and
\* the lowest security level.
C10_Witness ==
    /\ cli.called
    /\ gen.called
    /\ gen.encoder_calls = 1
    /\ gen.columns = 30
    /\ gen.security = 0

---------------------------------------------------------------------------
(* C11: the dispatch of main *)

\* The command line passes parse_args: valid --columns and --security, and
\* exactly one of the image and -g.
Parsed(args) ==
    /\ InRange(args.columns, 1, 30)
    /\ InRange(args.security, 0, 8)
    /\ (args.generate = "absent") # (args.image = "absent")

NoModeFlag(args) == ~args.simple /\ ~args.full /\ ~args.raw

FlagOf(args, mode) ==
    CASE mode = "simple" -> args.simple
      [] mode = "full" -> args.full
      [] mode = "raw" -> args.raw
      [] OTHER -> FALSE

\* C11: a run of main whose command line parses runs one operation: with -g
\* given it calls generate_barcode once and never decode_barcode; with an
\* image and no mode flag it ends with a usage error before decode_barcode;
\* with an image and a mode flag it calls decode_barcode once in a mode whose
\* flag is set, and the record of simple mode holds only names of
\* SIMPLE_FIELDS, that of full mode only names of FULL_FIELDS, and raw mode
\* returns the detector's results, not a record of fields.
C11_ModeDispatch ==
    (cli.called /\ Parsed(cli.args)) =>
        /\ cli.generate_calls + cli.decode_calls <= 1
        /\ cli.args.generate # "absent" =>
              /\ cli.generate_calls = 1
              /\ cli.decode_calls = 0
              /\ ~dec.called
        /\ cli.args.generate = "absent" =>
              /\ cli.generate_calls = 0
              /\ NoModeFlag(cli.args) =>
                    (cli.exit = 2 /\ cli.decode_calls = 0 /\ ~dec.called)
              /\ ~NoModeFlag(cli.args) =>
                    /\ cli.decode_calls = 1
                    /\ dec.called
                    /\ dec.mode \in {"raw", "simple", "full"}
                    /\ FlagOf(cli.args, dec.mode)
        /\ dec.called =>
              /\ (dec.mode = "simple" /\ dec.ret.kind = "dict") =>
                    DOMAIN dec.ret.value \subseteq Names(SIMPLE_FIELDS)
              /\ (dec.mode = "full" /\ dec.ret.kind = "dict") =>
                    DOMAIN dec.ret.value \subseteq Names(FULL_FIELDS)
              /\ dec.mode = "raw" => dec.ret.kind \in {"raw", "None"}

---------------------------------------------------------------------------
(* C12: calls do not act on one another *)

\* What a call returns when it is the first call of a process.
FirstParse(s, fields) == parse_aamva_call(Loaded, s, fields).ret
FirstGenerate(f, env_ret) == generate_barcode_call(Loaded, f, env_ret).ret

ParseCalls == {i \in 1..Len(calls) : calls[i].op = "parse_aamva"}
GenerateCalls == {i \in 1..Len(calls) : calls[i].op = "generate_barcode"}

\* C12: after any sequence of calls of parse_aamva and generate_barcode the
\* two registries are what they were at import and the record last loaded is
\* the one of the file; every parse_aamva call returned what the same call
\* returns as the first call of a process, so two calls with the same two
\* arguments returned the same record whatever was called between them.
C12_Stateless ==
    /\ heap.SIMPLE_FIELDS = SIMPLE_FIELDS
    /\ heap.FULL_FIELDS = FULL_FIELDS
    /\ (calls # <<>> /\ calls[Len(calls)].op = "generate_barcode") =>
          heap.record = calls[Len(calls)].file.data
    /\ \A i \in ParseCalls : calls[i].ret = FirstParse(calls[i].data, calls[i].fields)
    /\ \A i, j \in ParseCalls :
          (calls[i].data = calls[j].data /\ calls[i].fields = calls[j].fields)
              => calls[i].ret = calls[j].ret
    /\ \A i, j \in GenerateCalls :
          calls[i].file = calls[j].file =>
              calls[i].ret.aamva_data = calls[j].ret.aamva_data

\* A parse that found LastName, a generate_barcode that reached the encoder,
\* then a parse of another payload with the same registry that found only
\* EyeColor.
C12_Witness ==
    /\ Len(calls) = 3
    /\ calls[1].op = "parse_aamva"
    /\ calls[1].fields = "FULL_FIELDS"
    /\ "LastName" \in DOMAIN calls[1].ret
    /\ calls[2].op = "generate_barcode"
    /\ calls[2].ret.encoder_calls = 1
    /\ calls[3].op = "parse_aamva"
    /\ calls[3].fields = "FULL_FIELDS"
    /\ calls[3].data # calls[1].data
    /\ DOMAIN calls[3].ret = {"EyeColor"}

---------------------------------------------------------------------------
(* C13: the number of check codewords *)

\* C13: calculate_error_correction returns 2^(level+1) codewords for every
\* codeword sequence and every level in 0..8, and encode returns the data
\* codewords followed by 8 check codewords.
C13_CheckCodewordCount ==
    enc.called =>
        /\ enc.op = "calculate_error_correction" =>
              Len(enc.error_codewords) = 2^(enc.level + 1)
        /\ enc.op = "encode" =>
              /\ Len(enc.full_codewords) = Len(enc.codewords) + 8
              /\ SubSeq(enc.full_codewords, 1, Len(enc.codewords)) = enc.codewords

---------------------------------------------------------------------------
(* C14: the range of a codeword *)

InCodewordRange(cws) == \A i \in 1..Len(cws) : cws[i] \in 0..928

\* C14: every element text_to_codewords returns, and every data and check
\* element encode returns, is an integer in 0..928.
C14_CodewordRange ==
    enc.called =>
        /\ enc.op = "text_to_codewords" => InCodewordRange(enc.codewords)
        /\ enc.op = "encode" => InCodewordRange(enc.full_codewords)

---------------------------------------------------------------------------
(* C15: the failures of generate_barcode *)

\* json.load returned: the file was read and held valid JSON.
JsonRead == json_file.state \in {"scalar", "list", "object"}

\* C15: a call of generate_barcode calls the external encoder at most once
\* and returns a boolean; it returns True only when the JSON was read and
\* pdf417gen.encode, render_image and image.save succeeded, each reached only
\* after the one before; and when the file is unreadable or invalid, the
\* encoder rejects the payload, or rendering or saving fails, it returns
\* False and no image was saved.
C15_FailsClosed ==
    gen.called =>
        /\ gen.encoder_calls \in {0, 1}
        /\ gen.ret \in BOOLEAN
        /\ gen.ret => (JsonRead /\ gen.encoder_calls = 1 /\ gen.encoded
                         /\ gen.rendered /\ gen.saved)
        /\ gen.saved => gen.rendered
        /\ gen.rendered => gen.encoded
        /\ gen.encoded => (gen.encoder_calls = 1 /\ JsonRead)
        /\ ~JsonRead => (gen.encoder_calls = 0 /\ ~gen.ret /\ ~gen.saved)
        /\ (gen.encoder_calls = 1 /\ ~gen.encoded) =>
              (~gen.ret /\ ~gen.rendered /\ ~gen.saved)
        /\ ~gen.saved => ~gen.ret
        /\ ~gen.ret => ~gen.saved

\* A call whose payload was encoded and rendered and whose image.save
\* failed: it returned False.
C15_Witness ==
    /\ gen.called
    /\ json_file.state = "object"
    /\ gen.encoder_calls = 1
    /\ gen.encoded
    /\ gen.rendered
    /\ ~gen.saved
    /\ ~gen.ret

---------------------------------------------------------------------------
(* C16: the failures of decode_barcode *)

\* C16: decode_barcode calls the detector at most once and only for a path
\* that is an existing file; it returns None for a missing file, for no
\* detector result, and in every mode for a first result whose bytes are not
\* valid UTF-8; otherwise in simple and full mode it returns the record
\* parsed from the text of the first result, whatever the later results are.
C16_FailuresAreNone ==
    dec.called =>
        /\ dec.detector_calls \in {0, 1}
        /\ dec.detector_calls = 1 => dec.image_path = "file"
        /\ dec.image_path # "file" => (dec.detector_calls = 0 /\ dec.ret.kind = "None")
        /\ dec.results = <<>> => dec.ret.kind = "None"
        /\ (dec.results # <<>> /\ dec.results[1].has_parsed /\ ~dec.results[1].utf8)
              => dec.ret.kind = "None"
        /\ (FirstDecodes /\ dec.mode \in {"simple", "full"}) =>
              /\ dec.ret.kind = "dict"
              /\ dec.ret.value = parse_aamva(FirstText, RegistryOf(dec.mode))

\* A decode in simple mode of two results that both carry a LastName: the
\* record holds the one of the first.
C16_Witness ==
    /\ dec.called
    /\ dec.mode = "simple"
    /\ dec.detector_calls = 1
    /\ Len(dec.results) = 2
    /\ dec.results[1].has_parsed /\ dec.results[1].utf8
    /\ dec.results[2].has_parsed /\ dec.results[2].utf8
    /\ dec.ret.kind = "dict"
    /\ "LastName" \in DOMAIN dec.ret.value
    /\ dec.ret.value["LastName"] = <<"A">>
    /\ parse_aamva(dec.results[2].text, SIMPLE_FIELDS)["LastName"] = <<"9">>

====
